---- MODULE Spec2Model ----
(***************************************************************************)
(* A model of the ai-music-arranger library: the note parser and scale     *)
(* generator (src/src/utils.py), the harmony request pipeline              *)
(* (src/src/services.py) and the batch validator (src/src/models.py).      *)
(*                                                                         *)
(* The library is stateless: every entry point is a synchronous call that  *)
(* either returns a value or raises, and writes to the process logger.     *)
(* The state is therefore one call, its outcome and the trace of what it   *)
(* did: the log records it emitted and the calls it made, in order.        *)
(* Python strings whose characters matter (note tokens, scale types, keys) *)
(* are sequences of characters.  A character is a one-character string     *)
(* when it is printable ASCII or one of \t, \n, \f, \r; any other character *)
(* is written as U+ and the four to six hexadecimal digits of its code     *)
(* point: "U+0664" is ARABIC-INDIC DIGIT FOUR, "U+000B" the vertical tab.   *)
(***************************************************************************)
EXTENDS Integers, Sequences, FiniteSets, TLC

VARIABLES call, outcome, trace

vars == <<call, outcome, trace>>

(***************************************************************************)
(* Bounds of the model.                                                    *)
(***************************************************************************)
MaxTokenLen == 3
MaxRootLen == 2
MaxMelodyLen == 5
MaxChordsLen == 2
MaxNotes == 2
MaxProgressions == 1
MaxPredictionLen == 2
MaxFloatLen == 3

(***************************************************************************)
(* Python values and outcomes.                                             *)
(***************************************************************************)
None == "None"

Pending == [kind |-> "pending"]

Return(v) == [kind |-> "return", value |-> v]

Raise(exc, msg) == [kind |-> "raise", exc |-> exc, msg |-> msg]

LogRecord(level, text) == [ev |-> "log", level |-> level, text |-> text]

CallEvent(fn) == [ev |-> "call", fn |-> fn]

\* What a function did: its outcome and the events of its run, in order.
Ran(res, events) == [res |-> res, trace |-> events]

(***************************************************************************)
(* Characters.                                                             *)
(***************************************************************************)
UpperLetters == <<"A","B","C","D","E","F","G","H","I","J","K","L","M",
                  "N","O","P","Q","R","S","T","U","V","W","X","Y","Z">>

LowerLetters == <<"a","b","c","d","e","f","g","h","i","j","k","l","m",
                  "n","o","p","q","r","s","t","u","v","w","x","y","z">>

\* the class [0-9], and the digits of a float literal
DigitChars == <<"0","1","2","3","4","5","6","7","8","9">>

Range(s) == {s[i] : i \in 1..Len(s)}

\* the characters \d matches in a str pattern and int() converts: the decimal
\* digits of Unicode 15 (category Nd), one row per script, each row the digits
\* of value 0 to 9 in order
DecimalDigits ==
    <<<<"0", "1", "2", "3", "4", "5", "6", "7", "8", "9">>,
      <<"U+0660", "U+0661", "U+0662", "U+0663", "U+0664", "U+0665", "U+0666", "U+0667", "U+0668", "U+0669">>,
      <<"U+06F0", "U+06F1", "U+06F2", "U+06F3", "U+06F4", "U+06F5", "U+06F6", "U+06F7", "U+06F8", "U+06F9">>,
      <<"U+07C0", "U+07C1", "U+07C2", "U+07C3", "U+07C4", "U+07C5", "U+07C6", "U+07C7", "U+07C8", "U+07C9">>,
      <<"U+0966", "U+0967", "U+0968", "U+0969", "U+096A", "U+096B", "U+096C", "U+096D", "U+096E", "U+096F">>,
      <<"U+09E6", "U+09E7", "U+09E8", "U+09E9", "U+09EA", "U+09EB", "U+09EC", "U+09ED", "U+09EE", "U+09EF">>,
      <<"U+0A66", "U+0A67", "U+0A68", "U+0A69", "U+0A6A", "U+0A6B", "U+0A6C", "U+0A6D", "U+0A6E", "U+0A6F">>,
      <<"U+0AE6", "U+0AE7", "U+0AE8", "U+0AE9", "U+0AEA", "U+0AEB", "U+0AEC", "U+0AED", "U+0AEE", "U+0AEF">>,
      <<"U+0B66", "U+0B67", "U+0B68", "U+0B69", "U+0B6A", "U+0B6B", "U+0B6C", "U+0B6D", "U+0B6E", "U+0B6F">>,
      <<"U+0BE6", "U+0BE7", "U+0BE8", "U+0BE9", "U+0BEA", "U+0BEB", "U+0BEC", "U+0BED", "U+0BEE", "U+0BEF">>,
      <<"U+0C66", "U+0C67", "U+0C68", "U+0C69", "U+0C6A", "U+0C6B", "U+0C6C", "U+0C6D", "U+0C6E", "U+0C6F">>,
      <<"U+0CE6", "U+0CE7", "U+0CE8", "U+0CE9", "U+0CEA", "U+0CEB", "U+0CEC", "U+0CED", "U+0CEE", "U+0CEF">>,
      <<"U+0D66", "U+0D67", "U+0D68", "U+0D69", "U+0D6A", "U+0D6B", "U+0D6C", "U+0D6D", "U+0D6E", "U+0D6F">>,
      <<"U+0DE6", "U+0DE7", "U+0DE8", "U+0DE9", "U+0DEA", "U+0DEB", "U+0DEC", "U+0DED", "U+0DEE", "U+0DEF">>,
      <<"U+0E50", "U+0E51", "U+0E52", "U+0E53", "U+0E54", "U+0E55", "U+0E56", "U+0E57", "U+0E58", "U+0E59">>,
      <<"U+0ED0", "U+0ED1", "U+0ED2", "U+0ED3", "U+0ED4", "U+0ED5", "U+0ED6", "U+0ED7", "U+0ED8", "U+0ED9">>,
      <<"U+0F20", "U+0F21", "U+0F22", "U+0F23", "U+0F24", "U+0F25", "U+0F26", "U+0F27", "U+0F28", "U+0F29">>,
      <<"U+1040", "U+1041", "U+1042", "U+1043", "U+1044", "U+1045", "U+1046", "U+1047", "U+1048", "U+1049">>,
      <<"U+1090", "U+1091", "U+1092", "U+1093", "U+1094", "U+1095", "U+1096", "U+1097", "U+1098", "U+1099">>,
      <<"U+17E0", "U+17E1", "U+17E2", "U+17E3", "U+17E4", "U+17E5", "U+17E6", "U+17E7", "U+17E8", "U+17E9">>,
      <<"U+1810", "U+1811", "U+1812", "U+1813", "U+1814", "U+1815", "U+1816", "U+1817", "U+1818", "U+1819">>,
      <<"U+1946", "U+1947", "U+1948", "U+1949", "U+194A", "U+194B", "U+194C", "U+194D", "U+194E", "U+194F">>,
      <<"U+19D0", "U+19D1", "U+19D2", "U+19D3", "U+19D4", "U+19D5", "U+19D6", "U+19D7", "U+19D8", "U+19D9">>,
      <<"U+1A80", "U+1A81", "U+1A82", "U+1A83", "U+1A84", "U+1A85", "U+1A86", "U+1A87", "U+1A88", "U+1A89">>,
      <<"U+1A90", "U+1A91", "U+1A92", "U+1A93", "U+1A94", "U+1A95", "U+1A96", "U+1A97", "U+1A98", "U+1A99">>,
      <<"U+1B50", "U+1B51", "U+1B52", "U+1B53", "U+1B54", "U+1B55", "U+1B56", "U+1B57", "U+1B58", "U+1B59">>,
      <<"U+1BB0", "U+1BB1", "U+1BB2", "U+1BB3", "U+1BB4", "U+1BB5", "U+1BB6", "U+1BB7", "U+1BB8", "U+1BB9">>,
      <<"U+1C40", "U+1C41", "U+1C42", "U+1C43", "U+1C44", "U+1C45", "U+1C46", "U+1C47", "U+1C48", "U+1C49">>,
      <<"U+1C50", "U+1C51", "U+1C52", "U+1C53", "U+1C54", "U+1C55", "U+1C56", "U+1C57", "U+1C58", "U+1C59">>,
      <<"U+A620", "U+A621", "U+A622", "U+A623", "U+A624", "U+A625", "U+A626", "U+A627", "U+A628", "U+A629">>,
      <<"U+A8D0", "U+A8D1", "U+A8D2", "U+A8D3", "U+A8D4", "U+A8D5", "U+A8D6", "U+A8D7", "U+A8D8", "U+A8D9">>,
      <<"U+A900", "U+A901", "U+A902", "U+A903", "U+A904", "U+A905", "U+A906", "U+A907", "U+A908", "U+A909">>,
      <<"U+A9D0", "U+A9D1", "U+A9D2", "U+A9D3", "U+A9D4", "U+A9D5", "U+A9D6", "U+A9D7", "U+A9D8", "U+A9D9">>,
      <<"U+A9F0", "U+A9F1", "U+A9F2", "U+A9F3", "U+A9F4", "U+A9F5", "U+A9F6", "U+A9F7", "U+A9F8", "U+A9F9">>,
      <<"U+AA50", "U+AA51", "U+AA52", "U+AA53", "U+AA54", "U+AA55", "U+AA56", "U+AA57", "U+AA58", "U+AA59">>,
      <<"U+ABF0", "U+ABF1", "U+ABF2", "U+ABF3", "U+ABF4", "U+ABF5", "U+ABF6", "U+ABF7", "U+ABF8", "U+ABF9">>,
      <<"U+FF10", "U+FF11", "U+FF12", "U+FF13", "U+FF14", "U+FF15", "U+FF16", "U+FF17", "U+FF18", "U+FF19">>,
      <<"U+104A0", "U+104A1", "U+104A2", "U+104A3", "U+104A4", "U+104A5", "U+104A6", "U+104A7", "U+104A8", "U+104A9">>,
      <<"U+10D30", "U+10D31", "U+10D32", "U+10D33", "U+10D34", "U+10D35", "U+10D36", "U+10D37", "U+10D38", "U+10D39">>,
      <<"U+11066", "U+11067", "U+11068", "U+11069", "U+1106A", "U+1106B", "U+1106C", "U+1106D", "U+1106E", "U+1106F">>,
      <<"U+110F0", "U+110F1", "U+110F2", "U+110F3", "U+110F4", "U+110F5", "U+110F6", "U+110F7", "U+110F8", "U+110F9">>,
      <<"U+11136", "U+11137", "U+11138", "U+11139", "U+1113A", "U+1113B", "U+1113C", "U+1113D", "U+1113E", "U+1113F">>,
      <<"U+111D0", "U+111D1", "U+111D2", "U+111D3", "U+111D4", "U+111D5", "U+111D6", "U+111D7", "U+111D8", "U+111D9">>,
      <<"U+112F0", "U+112F1", "U+112F2", "U+112F3", "U+112F4", "U+112F5", "U+112F6", "U+112F7", "U+112F8", "U+112F9">>,
      <<"U+11450", "U+11451", "U+11452", "U+11453", "U+11454", "U+11455", "U+11456", "U+11457", "U+11458", "U+11459">>,
      <<"U+114D0", "U+114D1", "U+114D2", "U+114D3", "U+114D4", "U+114D5", "U+114D6", "U+114D7", "U+114D8", "U+114D9">>,
      <<"U+11650", "U+11651", "U+11652", "U+11653", "U+11654", "U+11655", "U+11656", "U+11657", "U+11658", "U+11659">>,
      <<"U+116C0", "U+116C1", "U+116C2", "U+116C3", "U+116C4", "U+116C5", "U+116C6", "U+116C7", "U+116C8", "U+116C9">>,
      <<"U+11730", "U+11731", "U+11732", "U+11733", "U+11734", "U+11735", "U+11736", "U+11737", "U+11738", "U+11739">>,
      <<"U+118E0", "U+118E1", "U+118E2", "U+118E3", "U+118E4", "U+118E5", "U+118E6", "U+118E7", "U+118E8", "U+118E9">>,
      <<"U+11950", "U+11951", "U+11952", "U+11953", "U+11954", "U+11955", "U+11956", "U+11957", "U+11958", "U+11959">>,
      <<"U+11C50", "U+11C51", "U+11C52", "U+11C53", "U+11C54", "U+11C55", "U+11C56", "U+11C57", "U+11C58", "U+11C59">>,
      <<"U+11D50", "U+11D51", "U+11D52", "U+11D53", "U+11D54", "U+11D55", "U+11D56", "U+11D57", "U+11D58", "U+11D59">>,
      <<"U+11DA0", "U+11DA1", "U+11DA2", "U+11DA3", "U+11DA4", "U+11DA5", "U+11DA6", "U+11DA7", "U+11DA8", "U+11DA9">>,
      <<"U+11F50", "U+11F51", "U+11F52", "U+11F53", "U+11F54", "U+11F55", "U+11F56", "U+11F57", "U+11F58", "U+11F59">>,
      <<"U+16A60", "U+16A61", "U+16A62", "U+16A63", "U+16A64", "U+16A65", "U+16A66", "U+16A67", "U+16A68", "U+16A69">>,
      <<"U+16AC0", "U+16AC1", "U+16AC2", "U+16AC3", "U+16AC4", "U+16AC5", "U+16AC6", "U+16AC7", "U+16AC8", "U+16AC9">>,
      <<"U+16B50", "U+16B51", "U+16B52", "U+16B53", "U+16B54", "U+16B55", "U+16B56", "U+16B57", "U+16B58", "U+16B59">>,
      <<"U+1D7CE", "U+1D7CF", "U+1D7D0", "U+1D7D1", "U+1D7D2", "U+1D7D3", "U+1D7D4", "U+1D7D5", "U+1D7D6", "U+1D7D7">>,
      <<"U+1D7D8", "U+1D7D9", "U+1D7DA", "U+1D7DB", "U+1D7DC", "U+1D7DD", "U+1D7DE", "U+1D7DF", "U+1D7E0", "U+1D7E1">>,
      <<"U+1D7E2", "U+1D7E3", "U+1D7E4", "U+1D7E5", "U+1D7E6", "U+1D7E7", "U+1D7E8", "U+1D7E9", "U+1D7EA", "U+1D7EB">>,
      <<"U+1D7EC", "U+1D7ED", "U+1D7EE", "U+1D7EF", "U+1D7F0", "U+1D7F1", "U+1D7F2", "U+1D7F3", "U+1D7F4", "U+1D7F5">>,
      <<"U+1D7F6", "U+1D7F7", "U+1D7F8", "U+1D7F9", "U+1D7FA", "U+1D7FB", "U+1D7FC", "U+1D7FD", "U+1D7FE", "U+1D7FF">>,
      <<"U+1E140", "U+1E141", "U+1E142", "U+1E143", "U+1E144", "U+1E145", "U+1E146", "U+1E147", "U+1E148", "U+1E149">>,
      <<"U+1E2F0", "U+1E2F1", "U+1E2F2", "U+1E2F3", "U+1E2F4", "U+1E2F5", "U+1E2F6", "U+1E2F7", "U+1E2F8", "U+1E2F9">>,
      <<"U+1E4F0", "U+1E4F1", "U+1E4F2", "U+1E4F3", "U+1E4F4", "U+1E4F5", "U+1E4F6", "U+1E4F7", "U+1E4F8", "U+1E4F9">>,
      <<"U+1E950", "U+1E951", "U+1E952", "U+1E953", "U+1E954", "U+1E955", "U+1E956", "U+1E957", "U+1E958", "U+1E959">>,
      <<"U+1FBF0", "U+1FBF1", "U+1FBF2", "U+1FBF3", "U+1FBF4", "U+1FBF5", "U+1FBF6", "U+1FBF7", "U+1FBF8", "U+1FBF9">>>>

DecimalDigitChars == UNION {Range(DecimalDigits[r]) : r \in 1..Len(DecimalDigits)}

\* the value of a decimal digit: its place in its row
DigitValue(c) == CHOOSE v \in 0..9 : \E r \in 1..Len(DecimalDigits) : DecimalDigits[r][v + 1] = c

IndexOf(s, c) == CHOOSE i \in 1..Len(s) : s[i] = c

\* str.upper() and str.lower(), character by character.  upper() is applied to
\* a letter of [A-Ga-g] only; lower() to a scale type that is then compared with
\* 'major' and 'minor', which no string with a character outside ASCII lowers to
UpperChar(c) == IF c \in Range(LowerLetters) THEN UpperLetters[IndexOf(LowerLetters, c)] ELSE c

LowerChar(c) == IF c \in Range(UpperLetters) THEN LowerLetters[IndexOf(UpperLetters, c)] ELSE c

Upper(s) == [i \in 1..Len(s) |-> UpperChar(s[i])]

Lower(s) == [i \in 1..Len(s) |-> LowerChar(s[i])]

\* the value of a string of decimal digits, of any scripts
RECURSIVE DigitsToInt(_)
DigitsToInt(ds) ==
    IF Len(ds) = 0 THEN 0
    ELSE 10 * DigitsToInt(SubSeq(ds, 1, Len(ds) - 1)) + DigitValue(ds[Len(ds)])

\* sys.get_int_max_str_digits(): the longest digit string int() converts
IntMaxStrDigits == 4300

\* int() of a string of decimal digits
PyIntOfDigits(ds) ==
    IF Len(ds) > IntMaxStrDigits
    THEN Raise("ValueError", <<"Exceeds the limit (4300 digits) for integer string conversion">>)
    ELSE Return(DigitsToInt(ds))

(***************************************************************************)
(* re.match(r'^(letter)([#b]?)(digit+)$', s).  '$' matches at the end of   *)
(* the string and also just before a newline that ends the string.  The    *)
(* optional group is greedy; backtracking to the empty alternative cannot  *)
(* succeed, since '#' and 'b' are no digits.                               *)
(***************************************************************************)
DollarBody(s) == IF Len(s) > 0 /\ s[Len(s)] = "\n" THEN SubSeq(s, 1, Len(s) - 1) ELSE s

PitchRegex(s, letters, digits) ==
    LET t == DollarBody(s)
        hasAcc == Len(t) >= 2 /\ t[2] \in {"#", "b"}
        first == IF hasAcc THEN 3 ELSE 2
        ds == SubSeq(t, first, Len(t))
    IN  IF /\ Len(t) >= 1
           /\ t[1] \in letters
           /\ Len(ds) >= 1
           /\ \A i \in 1..Len(ds) : ds[i] \in digits
        THEN [matched |-> TRUE, g1 |-> <<t[1]>>,
              g2 |-> IF hasAcc THEN <<t[2]>> ELSE <<>>, g3 |-> ds]
        ELSE [matched |-> FALSE]

NoteLetters == {"A","B","C","D","E","F","G","a","b","c","d","e","f","g"}

\* the pattern of parse_note: ^([A-Ga-g])([#b]?)(\d+)$
NotePattern(s) == PitchRegex(s, NoteLetters, DecimalDigitChars)

(***************************************************************************)
(* utils.Note: pitch and accidental are strings (accidental may be None),  *)
(* octave an integer.  One-character strings are kept as TLA+ strings, the *)
(* empty string as "".                                                     *)
(***************************************************************************)
Note(pitch, accidental, octave) == [pitch |-> pitch, accidental |-> accidental, octave |-> octave]

\* a regex group of length at most one, as a Python str
GroupStr(g) == IF Len(g) = 0 THEN "" ELSE g[1]

parse_note(note_str) ==
    LET match == NotePattern(note_str)
        failed(res) == Ran(res, <<LogRecord("ERROR", <<"Error parsing note", note_str>>)>>)
    IN  IF ~match.matched
        THEN failed(Raise("ValueError", <<"Invalid note format", note_str>>))
        ELSE LET pitch == GroupStr(Upper(match.g1))
                 accidental == GroupStr(match.g2)
                 octave == PyIntOfDigits(match.g3)
             IN  IF octave.kind = "raise" THEN failed(octave)
                 ELSE IF pitch \notin {"A","B","C","D","E","F","G"}
                 THEN failed(Raise("ValueError", <<"Invalid pitch", pitch>>))
                 ELSE IF accidental \notin {"", "#", "b"}
                 THEN failed(Raise("ValueError", <<"Invalid accidental", accidental>>))
                 ELSE Ran(Return(Note(pitch, accidental, octave.value)), <<>>)

(***************************************************************************)
(* utils.Scale: the constructor runs _generate_scale.                      *)
(***************************************************************************)
MajorStr == <<"m","a","j","o","r">>

MinorStr == <<"m","i","n","o","r">>

\* the minor scale closed in the root's octave
_generate_scale_same_octave(root, scale_type) ==
    LET parsed == parse_note(root)
        failed(res, before) ==
            Ran(res, <<CallEvent("parse_note")>> \o before
                     \o <<LogRecord("ERROR", <<"Error generating scale">>)>>)
    IN  IF parsed.res.kind = "raise"
        THEN failed(parsed.res, parsed.trace)
        ELSE LET root_note == parsed.res.value
                 at(p, up) == Note(p, None, root_note.octave + up)
             IN  IF Lower(scale_type) = MajorStr
                 THEN Ran(Return(<<root_note, at("D", 0), at("E", 0), at("F", 0),
                                   at("G", 0), at("A", 0), at("B", 0)>>),
                          <<CallEvent("parse_note")>>)
                 ELSE IF Lower(scale_type) = MinorStr
                 THEN Ran(Return(<<root_note, at("D", 0), at("F", 0), at("G", 0),
                                   at("A", 0), at("B", 0), at("C", 0)>>),
                          <<CallEvent("parse_note")>>)
                 ELSE failed(Raise("ValueError", <<"Unsupported scale type", scale_type>>), <<>>)

_generate_scale(root, scale_type) ==
    LET parsed == parse_note(root)
        failed(res, before) ==
            Ran(res, <<CallEvent("parse_note")>> \o before
                     \o <<LogRecord("ERROR", <<"Error generating scale">>)>>)
    IN  IF parsed.res.kind = "raise"
        THEN failed(parsed.res, parsed.trace)
        ELSE LET root_note == parsed.res.value
                 at(p, up) == Note(p, None, root_note.octave + up)
             IN  IF Lower(scale_type) = MajorStr
                 THEN Ran(Return(<<root_note, at("D", 0), at("E", 0), at("F", 0),
                                   at("G", 0), at("A", 0), at("B", 0)>>),
                          <<CallEvent("parse_note")>>)
                 ELSE IF Lower(scale_type) = MinorStr
                 THEN Ran(Return(<<root_note, at("D", 0), at("F", 0), at("G", 0),
                                   at("A", 0), at("B", 0), at("C", 1)>>),
                          <<CallEvent("parse_note")>>)
                 ELSE failed(Raise("ValueError", <<"Unsupported scale type", scale_type>>), <<>>)

(***************************************************************************)
(* numpy.  A float is written as a rational [n, d] and is the float        *)
(* nearest to n/d (d = 0: nan and the infinities); an array is its shape   *)
(* and its elements in row-major order.                                    *)
(***************************************************************************)
Float(n, d) == [n |-> n, d |-> d]

Abs(x) == IF x < 0 THEN -x ELSE x

RECURSIVE Pow2(_)
Pow2(k) == IF k = 0 THEN 1 ELSE 2 * Pow2(k - 1)

\* the floats that are no rationals: d = 0
NaN == [n |-> 0, d |-> 0]

Inf == [n |-> 1, d |-> 0]

NegInf == [n |-> -1, d |-> 0]

\* the number of binary digits of a natural number
RECURSIVE BitLength(_)
BitLength(n) == IF n = 0 THEN 0 ELSE 1 + BitLength(n \div 2)

\* the integer x rounded to the nearest multiple of u, ties to the even multiple
RoundToUnit(x, u) ==
    IF 2 * (x % u) < u \/ (2 * (x % u) = u /\ (x \div u) % 2 = 0)
    THEN x - (x % u)
    ELSE x - (x % u) + u

\* the integer x, of so many binary digits more than are kept, rounded
RoundExcess(x, excess) == IF excess <= 0 THEN x ELSE RoundToUnit(x, Pow2(excess))

\* the integer x rounded to the nearest one with at most the given number of
\* significant binary digits, ties to the even one
RoundToBits(x, bits) == RoundExcess(x, BitLength(Abs(x)) - bits)

\* a C double: 53 significant binary digits, below 2^1024
DoubleDigits == 53

DoubleMaxBits == 1024

\* a float32: 24 significant binary digits, below 2^128
Float32Digits == 24

Float32MaxBits == 128

\* the rounded value as a double, or OverflowError when it is too large for one
DoubleOrOverflow(d) ==
    IF BitLength(Abs(d)) > DoubleMaxBits
    THEN Raise("OverflowError", <<"int too large to convert to float">>)
    ELSE Return(d)

\* float(x) of an int: the nearest double
PyFloat(x) == DoubleOrOverflow(RoundToBits(x, DoubleDigits))

\* the rounded value as a float32, an infinity when it is too large for one
Float32OrInf(f) ==
    IF BitLength(Abs(f)) > Float32MaxBits THEN (IF f < 0 THEN NegInf ELSE Inf)
    ELSE Float(f, 1)

\* a double of integer value cast to float32: the nearest float32
CastFloat32(d) == Float32OrInf(RoundToBits(d, Float32Digits))

\* the cast of a converted element; an element that was not converted stays the error
CastConverted(d) == IF d.kind = "raise" THEN d ELSE Return(CastFloat32(d.value))

\* an int stored in a float32 array: converted to a double, then cast
Float32(x) == CastConverted(PyFloat(x))

NdArray(shape, data) == [shape |-> shape, data |-> data]

\* the array of the stored elements; an element that is no double ends it with
\* that element's error
ArrayOf(elements) ==
    IF \E i \in 1..Len(elements) : elements[i].kind = "raise"
    THEN elements[CHOOSE i \in 1..Len(elements) :
                      /\ elements[i].kind = "raise"
                      /\ \A j \in 1..(i - 1) : elements[j].kind # "raise"]
    ELSE Return(NdArray(<<Len(elements)>>, [i \in 1..Len(elements) |-> elements[i].value]))

\* np.array(list of int, dtype=np.float32): one dimension
np_array(values) == ArrayOf([i \in 1..Len(values) |-> Float32(values[i])])

RECURSIVE Flatten(_)
Flatten(rows) == IF Len(rows) = 0 THEN <<>> ELSE Head(rows).data \o Flatten(Tail(rows))

\* np.array(list of equal-length 1-d arrays): two dimensions, unless the list is
\* empty, which gives the one-dimensional empty array
np_array_rows(rows) ==
    IF Len(rows) = 0 THEN NdArray(<<0>>, <<>>)
    ELSE NdArray(<<Len(rows), Head(rows).shape[1]>>, Flatten(rows))

RECURSIVE SumLead(_)
SumLead(arrays) == IF Len(arrays) = 0 THEN 0 ELSE Head(arrays).shape[1] + SumLead(Tail(arrays))

\* np.concatenate(arrays) along axis 0: the arrays must have the same number of
\* dimensions and agree on every dimension but the first
np_concatenate(arrays) ==
    IF \E i \in 1..Len(arrays) : Len(arrays[i].shape) # Len(arrays[1].shape)
    THEN Raise("ValueError", <<"all the input arrays must have same number of dimensions">>)
    ELSE IF \E i \in 1..Len(arrays) : Tail(arrays[i].shape) # Tail(arrays[1].shape)
    THEN Raise("ValueError", <<"all the input array dimensions except for the concatenation axis must match exactly">>)
    ELSE Return(NdArray(<<SumLead(arrays)>> \o Tail(arrays[1].shape), Flatten(arrays)))

(***************************************************************************)
(* services.MusicService.  A MusicInput is [melody, chords, tempo]; chord  *)
(* names are only ever dictionary keys, so they stay TLA+ strings.         *)
(***************************************************************************)
MusicInput(melody, chords, tempo) == [melody |-> melody, chords |-> chords, tempo |-> tempo]

\* the tempo bounds taken as exclusive
_validate_input_exclusive(input_data) ==
    IF Len(input_data.melody) = 0 \/ Len(input_data.melody) < 5
    THEN Ran(Raise("ValueError", <<"Melody must contain at least 5 notes">>), <<>>)
    ELSE IF Len(input_data.chords) = 0 \/ Len(input_data.chords) < 2
    THEN Ran(Raise("ValueError", <<"At least 2 chords are required">>), <<>>)
    ELSE IF input_data.tempo <= 40 \/ input_data.tempo >= 240
    THEN Ran(Raise("ValueError", <<"Tempo must be between 40 and 240 BPM">>), <<>>)
    ELSE Ran(Return(TRUE), <<>>)

_validate_input(input_data) ==
    IF Len(input_data.melody) = 0 \/ Len(input_data.melody) < 5
    THEN Ran(Raise("ValueError", <<"Melody must contain at least 5 notes">>), <<>>)
    ELSE IF Len(input_data.chords) = 0 \/ Len(input_data.chords) < 2
    THEN Ran(Raise("ValueError", <<"At least 2 chords are required">>), <<>>)
    ELSE IF input_data.tempo < 40 \/ input_data.tempo > 240
    THEN Ran(Raise("ValueError", <<"Tempo must be between 40 and 240 BPM">>), <<>>)
    ELSE Ran(Return(TRUE), <<>>)

chord_map ==
    [c \in {"Cmaj7", "G7", "Am7", "D7", "Em7", "A7", "Fmaj7"} |->
        CASE c = "Cmaj7" -> <<1, 0, 0, 0, 0, 0, 0>>
          [] c = "G7"    -> <<0, 1, 0, 0, 0, 0, 0>>
          [] c = "Am7"   -> <<0, 0, 1, 0, 0, 0, 0>>
          [] c = "D7"    -> <<0, 0, 0, 1, 0, 0, 0>>
          [] c = "Em7"   -> <<0, 0, 0, 0, 1, 0, 0>>
          [] c = "A7"    -> <<0, 0, 0, 0, 0, 1, 0>>
          [] c = "Fmaj7" -> <<0, 0, 0, 0, 0, 0, 1>>]

\* the lookup with the first vocabulary entry as the fallback
chord_map_get_first(chord) ==
    IF chord \in DOMAIN chord_map THEN chord_map[chord] ELSE chord_map["Cmaj7"]

\* chord_map.get(chord, [0]*7)
chord_map_get(chord) ==
    IF chord \in DOMAIN chord_map THEN chord_map[chord] ELSE [i \in 1..7 |-> 0]

_chord_to_vector(chord) == Ran(np_array(chord_map_get(chord)), <<>>)

\* the chord vectors stacked: line 57
ChordRows(chords) ==
    np_array_rows([i \in 1..Len(chords) |-> _chord_to_vector(chords[i]).res.value])

\* the three arrays joined, unless building the melody or the tempo array failed
Concatenated(melody, chords, tempo) ==
    IF melody.kind = "raise" THEN melody
    ELSE IF tempo.kind = "raise" THEN tempo
    ELSE np_concatenate(<<melody.value, chords, tempo.value>>)

_process_input(input_data) ==
    Ran(Concatenated(np_array(input_data.melody), ChordRows(input_data.chords),
                     np_array(<<input_data.tempo>>)), <<>>)

\* int(x) rounding toward minus infinity
PyInt_floor(x) ==
    IF x = NaN THEN Raise("ValueError", <<"cannot convert float NaN to integer">>)
    ELSE IF x.d = 0 THEN Raise("OverflowError", <<"cannot convert float infinity to integer">>)
    ELSE Return(x.n \div x.d)

\* int(x) of a float: truncation toward zero; nan and the infinities raise
PyInt(x) ==
    IF x = NaN THEN Raise("ValueError", <<"cannot convert float NaN to integer">>)
    ELSE IF x.d = 0 THEN Raise("OverflowError", <<"cannot convert float infinity to integer">>)
    ELSE Return(IF x.n >= 0 THEN x.n \div x.d ELSE -((-x.n) \div x.d))

\* [int(note) for note in prediction.flatten()]: the first failing int() ends it
_convert_to_notes(prediction) ==
    LET ints == [i \in 1..Len(prediction.data) |-> PyInt(prediction.data[i])]
        bad == {i \in 1..Len(ints) : ints[i].kind = "raise"}
    IN  IF bad # {}
        THEN Ran(ints[CHOOSE i \in bad : \A j \in bad : i <= j], <<>>)
        ELSE Ran(Return([i \in 1..Len(ints) |-> ints[i].value]), <<>>)

\* self.model.predict(x): the external model either raises or returns an array
predict(model, x) ==
    IF model.does = "raise" THEN Raise(model.exc, <<"predict failed">>) ELSE Return(model.value)

\* the encoding done before the validation
generate_harmony_encode_first(input_data, model) ==
    LET boundary(res, events) ==
            Ran(res, events \o <<LogRecord("ERROR", <<"Error generating harmony", res.msg>>)>>)
        processed == _process_input(input_data)
        t1 == <<CallEvent("_process_input")>> \o processed.trace
    IN  IF processed.res.kind = "raise" THEN boundary(processed.res, t1)
        ELSE
        LET validated == _validate_input(input_data)
            t2 == t1 \o <<CallEvent("_validate_input")>> \o validated.trace
        IN  IF validated.res.kind = "raise" THEN boundary(validated.res, t2)
            ELSE
            LET prediction == predict(model, processed.res.value)
                t3 == t2 \o <<CallEvent("predict")>>
            IN  IF prediction.kind = "raise" THEN boundary(prediction, t3)
                ELSE
                LET harmony_notes == _convert_to_notes(prediction.value)
                    t4 == t3 \o <<CallEvent("_convert_to_notes")>> \o harmony_notes.trace
                IN  IF harmony_notes.res.kind = "raise" THEN boundary(harmony_notes.res, t4)
                    ELSE Ran(harmony_notes.res, t4)

\* an encoding failure logged and answered with an empty note sequence
generate_harmony_swallow(input_data, model) ==
    LET boundary(res, events) ==
            Ran(res, events \o <<LogRecord("ERROR", <<"Error generating harmony", res.msg>>)>>)
        validated == _validate_input(input_data)
        t1 == <<CallEvent("_validate_input")>> \o validated.trace
    IN  IF validated.res.kind = "raise" THEN boundary(validated.res, t1)
        ELSE
        LET processed == _process_input(input_data)
            t2 == t1 \o <<LogRecord("INFO", <<"Generating harmony with input", input_data>>),
                          CallEvent("_process_input")>> \o processed.trace
        IN  IF processed.res.kind = "raise"
            THEN Ran(Return(<<>>), boundary(processed.res, t2).trace)
            ELSE
            LET prediction == predict(model, processed.res.value)
                t3 == t2 \o <<CallEvent("predict")>>
            IN  IF prediction.kind = "raise" THEN boundary(prediction, t3)
                ELSE
                LET harmony_notes == _convert_to_notes(prediction.value)
                    t4 == t3 \o <<CallEvent("_convert_to_notes")>> \o harmony_notes.trace
                IN  IF harmony_notes.res.kind = "raise" THEN boundary(harmony_notes.res, t4)
                    ELSE Ran(harmony_notes.res, t4)

generate_harmony(input_data, model) ==
    LET boundary(res, events) ==
            Ran(res, events \o <<LogRecord("ERROR", <<"Error generating harmony", res.msg>>)>>)
        validated == _validate_input(input_data)
        t1 == <<CallEvent("_validate_input")>> \o validated.trace
    IN  IF validated.res.kind = "raise" THEN boundary(validated.res, t1)
        ELSE
        LET processed == _process_input(input_data)
            t2 == t1 \o <<LogRecord("INFO", <<"Generating harmony with input", input_data>>),
                          CallEvent("_process_input")>> \o processed.trace
        IN  IF processed.res.kind = "raise" THEN boundary(processed.res, t2)
            ELSE
            LET prediction == predict(model, processed.res.value)
                t3 == t2 \o <<CallEvent("predict")>>
            IN  IF prediction.kind = "raise" THEN boundary(prediction, t3)
                ELSE
                LET harmony_notes == _convert_to_notes(prediction.value)
                    t4 == t3 \o <<CallEvent("_convert_to_notes")>> \o harmony_notes.trace
                IN  IF harmony_notes.res.kind = "raise" THEN boundary(harmony_notes.res, t4)
                    ELSE Ran(harmony_notes.res, t4)

(***************************************************************************)
(* models.py.  Raw data are Python values: a str is [t, v] with v its      *)
(* characters, a number [t, v], None [t]; a dict is a function from its    *)
(* keys, a list a sequence.  A pydantic ValidationError names the model    *)
(* and the fields that failed.                                             *)
(***************************************************************************)
PyStr(chars) == [t |-> "str", v |-> chars]

PyNum(n) == [t |-> "num", v |-> n]

PyNone == [t |-> "NoneType"]

ValidationError(model, fields) ==
    Raise("ValidationError", [model |-> model, fields |-> fields])

PyBool(b) == [t |-> "bool", v |-> b]

RECURSIVE GCD(_, _)
GCD(a, b) == IF b = 0 THEN a ELSE GCD(b, a % b)

\* the rational n/d, d > 0, in lowest terms
Rational(n, d) == LET g == GCD(Abs(n), d) IN Float(n \div g, d \div g)

RECURSIVE Pow10(_)
Pow10(k) == IF k = 0 THEN 1 ELSE 10 * Pow10(k - 1)

\* the characters a float string may have around the number
WhiteSpaceChars ==
    {"\t", "\n", "U+000B", "\f", "\r", " ", "U+0085", "U+00A0", "U+1680",
     "U+2000", "U+2001", "U+2002", "U+2003", "U+2004", "U+2005", "U+2006",
     "U+2007", "U+2008", "U+2009", "U+200A", "U+2028", "U+2029", "U+202F",
     "U+205F", "U+3000"}

RECURSIVE TrimStart(_)
TrimStart(s) == IF Len(s) > 0 /\ Head(s) \in WhiteSpaceChars THEN TrimStart(Tail(s)) ELSE s

RECURSIVE TrimEnd(_)
TrimEnd(s) ==
    IF Len(s) > 0 /\ s[Len(s)] \in WhiteSpaceChars THEN TrimEnd(SubSeq(s, 1, Len(s) - 1)) ELSE s

Trim(s) == TrimEnd(TrimStart(s))

\* the number of digits 0-9 of s from position k on
RECURSIVE DigitRun(_, _)
DigitRun(s, k) ==
    IF k <= Len(s) /\ s[k] \in Range(DigitChars) THEN 1 + DigitRun(s, k + 1) ELSE 0

\* the number of zeros s starts with
RECURSIVE LeadingZeros(_)
LeadingZeros(s) == IF Len(s) > 0 /\ Head(s) = "0" THEN 1 + LeadingZeros(Tail(s)) ELSE 0

\* 0.a < 0.b, a and b the digits of two decimal fractions
FractionLess(a, b) ==
    LET digit(s, i) == IF i <= Len(s) THEN IndexOf(DigitChars, s[i]) - 1 ELSE 0
    IN  \E k \in 1..Len(b) :
            /\ digit(a, k) < digit(b, k)
            /\ \A j \in 1..(k - 1) : digit(a, j) = digit(b, j)

\* the least value that rounds to infinity, halfway from the largest double to
\* 2^1024: the digits of 2^1024 - 2^970, which is 0.17976... * 10^309
MaxDecimalExponent == 309

OverflowDigits ==
    <<"1","7","9","7","6","9","3","1","3","4","8","6","2","3","1","5","8","0","7","9",
      "3","7","2","8","9","7","1","4","0","5","3","0","3","4","1","5","0","7","9","9",
      "3","4","1","3","2","7","1","0","0","3","7","8","2","6","9","3","6","1","7","3",
      "7","7","8","9","8","0","4","4","4","9","6","8","2","9","2","7","6","4","7","5",
      "0","9","4","6","6","4","9","0","1","7","9","7","7","5","8","7","2","0","7","0",
      "9","6","3","3","0","2","8","6","4","1","6","6","9","2","8","8","7","9","1","0",
      "9","4","6","5","5","5","5","4","7","8","5","1","9","4","0","4","0","2","6","3",
      "0","6","5","7","4","8","8","6","7","1","5","0","5","8","2","0","6","8","1","9",
      "0","8","9","0","2","0","0","0","7","0","8","3","8","3","6","7","6","2","7","3",
      "8","5","4","8","4","5","8","1","7","7","1","1","5","3","1","7","6","4","4","7",
      "5","7","3","0","2","7","0","0","6","9","8","5","5","5","7","1","3","6","6","9",
      "5","9","6","2","2","8","4","2","9","1","4","8","1","9","8","6","0","8","3","4",
      "9","3","6","4","7","5","2","9","2","7","1","9","0","7","4","1","6","8","4","4",
      "4","3","6","5","5","1","0","7","0","4","3","4","2","7","1","1","5","5","9","6",
      "9","9","5","0","8","0","9","3","0","4","2","8","8","0","1","7","7","9","0","4",
      "1","7","4","4","9","7","7","9","2">>

\* the largest value that rounds to zero, half the least positive double: the
\* digits of 5^1075, 2^-1075 being 5^1075 / 10^1075 = 0.24703... * 10^-323
MinDecimalExponent == -323

UnderflowDigits ==
    <<"2","4","7","0","3","2","8","2","2","9","2","0","6","2","3","2","7","2","0","8",
      "8","2","8","4","3","9","6","4","3","4","1","1","0","6","8","6","1","8","2","5",
      "2","9","9","0","1","3","0","7","1","6","2","3","8","2","2","1","2","7","9","2",
      "8","4","1","2","5","0","3","3","7","7","5","3","6","3","5","1","0","4","3","7",
      "5","9","3","2","6","4","9","9","1","8","1","8","0","8","1","7","9","9","6","1",
      "8","9","8","9","8","2","8","2","3","4","7","7","2","2","8","5","8","8","6","5",
      "4","6","3","3","2","8","3","5","5","1","7","7","9","6","9","8","9","8","1","9",
      "9","3","8","7","3","9","8","0","0","5","3","9","0","9","3","9","0","6","3","1",
      "5","0","3","5","6","5","9","5","1","5","5","7","0","2","2","6","3","9","2","2",
      "9","0","8","5","8","3","9","2","4","4","9","1","0","5","1","8","4","4","3","5",
      "9","3","1","8","0","2","8","4","9","9","3","6","5","3","6","1","5","2","5","0",
      "0","3","1","9","3","7","0","4","5","7","6","7","8","2","4","9","2","1","9","3",
      "6","5","6","2","3","6","6","9","8","6","3","6","5","8","4","8","0","7","5","7",
      "0","0","1","5","8","5","7","6","9","2","6","9","9","0","3","7","0","6","3","1",
      "1","9","2","8","2","7","9","5","5","8","5","5","1","3","3","2","9","2","7","8",
      "3","4","3","3","8","4","0","9","3","5","1","9","7","8","0","1","5","5","3","1",
      "2","4","6","5","9","7","2","6","3","5","7","9","5","7","4","6","2","2","7","6",
      "6","4","6","5","2","7","2","8","2","7","2","2","0","0","5","6","3","7","4","0",
      "0","6","4","8","5","4","9","9","9","7","7","0","9","6","5","9","9","4","7","0",
      "4","5","4","0","2","0","8","2","8","1","6","6","2","2","6","2","3","7","8","5",
      "7","3","9","3","4","5","0","7","3","6","3","3","9","0","0","7","9","6","7","7",
      "6","1","9","3","0","5","7","7","5","0","6","7","4","0","1","7","6","3","2","4",
      "6","7","3","6","0","0","9","6","8","9","5","1","3","4","0","5","3","5","5","3",
      "7","4","5","8","5","1","6","6","6","1","1","3","4","2","2","3","7","6","6","6",
      "7","8","6","0","4","1","6","2","1","5","9","6","8","0","4","6","1","9","1","4",
      "4","6","7","2","9","1","8","4","0","3","0","0","5","3","0","0","5","7","5","3",
      "0","8","4","9","0","4","8","7","6","5","3","9","1","7","1","1","3","8","6","5",
      "9","1","6","4","6","2","3","9","5","2","4","9","1","2","6","2","3","6","5","3",
      "8","8","1","8","7","9","6","3","6","2","3","9","3","7","3","2","8","0","4","2",
      "3","8","9","1","0","1","8","6","7","2","3","4","8","4","9","7","6","6","8","2",
      "3","5","0","8","9","8","6","3","3","8","8","5","8","7","9","2","5","6","2","8",
      "3","0","2","7","5","5","9","9","5","6","5","7","5","2","4","4","5","5","5","0",
      "7","2","5","5","1","8","9","3","1","3","6","9","0","8","3","6","2","5","4","7",
      "7","9","1","8","6","9","4","8","6","6","7","9","9","4","9","6","8","3","2","4",
      "0","4","9","7","0","5","8","2","1","0","2","8","5","1","3","1","8","5","4","5",
      "1","3","9","6","2","1","3","8","3","7","7","2","2","8","2","6","1","4","5","4",
      "3","7","6","9","3","4","1","2","5","3","2","0","9","8","5","9","1","3","2","7",
      "6","6","7","2","3","6","3","2","8","1","2","5">>

\* 0.digits * 10^magnitude, digits starting with a non-zero digit, is past the
\* largest double
Overflows(digits, magnitude) ==
    \/ magnitude > MaxDecimalExponent
    \/ magnitude = MaxDecimalExponent /\ ~FractionLess(digits, OverflowDigits)

\* 0.digits * 10^magnitude rounds to zero
Underflows(digits, magnitude) ==
    \/ magnitude < MinDecimalExponent
    \/ magnitude = MinDecimalExponent /\ ~FractionLess(UnderflowDigits, digits)

\* the double of digits * 10^exp: infinite or zero beyond the doubles, else the
\* double nearest to the value, written as that value
DecimalFloat(negative, digits, exp) ==
    LET significant == SubSeq(digits, LeadingZeros(digits) + 1, Len(digits))
        magnitude == Len(significant) + exp
        sign == IF negative THEN -1 ELSE 1
    IN  IF Len(significant) = 0 THEN Float(0, 1)
        ELSE IF Overflows(significant, magnitude) THEN (IF negative THEN NegInf ELSE Inf)
        ELSE IF Underflows(significant, magnitude) THEN Float(0, 1)
        ELSE IF exp >= 0 THEN Float(sign * DigitsToInt(significant) * Pow10(exp), 1)
        ELSE Rational(sign * DigitsToInt(significant), Pow10(-exp))

NotANumber == Raise("ValueError", <<"Input should be a valid number">>)

\* the float parser stops adding exponent digits once the exponent has reached
\* this value (0x10000); the digits after that are skipped
ExponentLimit == 65536

\* the exponent digits read from the left, starting from the exponent read so far
RECURSIVE ReadExponent(_, _)
ReadExponent(expDigits, exponent) ==
    IF Len(expDigits) = 0 THEN exponent
    ELSE ReadExponent(Tail(expDigits),
                      IF exponent < ExponentLimit
                      THEN 10 * exponent + (IndexOf(DigitChars, Head(expDigits)) - 1)
                      ELSE exponent)

\* the exponent of a float literal, its digits read: none without the letter, one
\* at least with it, and nothing after them
ParseExponent(negative, digits, fraction, expDigits, minus, rest) ==
    LET expValue == ReadExponent(expDigits, 0)
    IN  IF Len(expDigits) = 0 \/ Len(rest) > 0 THEN NotANumber
        ELSE Return(DecimalFloat(negative, digits,
                                 (IF minus THEN -expValue ELSE expValue) - fraction))

\* the part of a float literal after its digits and point: nothing, or e or E,
\* an optional sign and the exponent
ParseTail(negative, digits, fraction, tail) ==
    LET signed == Len(tail) > 1 /\ tail[2] \in {"+", "-"}
        first == IF signed THEN 3 ELSE 2
        run == DigitRun(tail, first)
    IN  IF Len(tail) = 0 THEN Return(DecimalFloat(negative, digits, -fraction))
        ELSE IF tail[1] \notin {"e", "E"} THEN NotANumber
        ELSE ParseExponent(negative, digits, fraction, SubSeq(tail, first, first + run - 1),
                           signed /\ tail[2] = "-", SubSeq(tail, first + run, Len(tail)))

\* digits with an optional point, at least one digit before or after it, then
\* the tail
ParseNumber(negative, body) ==
    LET whole == DigitRun(body, 1)
        hasPoint == whole < Len(body) /\ body[whole + 1] = "."
        fraction == IF hasPoint THEN DigitRun(body, whole + 2) ELSE 0
        mantissa == whole + (IF hasPoint THEN 1 ELSE 0) + fraction
    IN  IF whole + fraction = 0 THEN NotANumber
        ELSE ParseTail(negative,
                       SubSeq(body, 1, whole) \o SubSeq(body, whole + 2, whole + 1 + fraction),
                       fraction, SubSeq(body, mantissa + 1, Len(body)))

\* a float literal: an optional sign, then inf, infinity or nan in any letter
\* case, or a number
ParseFloat(s) ==
    LET signed == Len(s) > 0 /\ s[1] \in {"+", "-"}
        negative == signed /\ s[1] = "-"
        body == IF signed THEN Tail(s) ELSE s
    IN  IF Lower(body) \in {<<"i","n","f">>, <<"i","n","f","i","n","i","t","y">>}
        THEN Return(IF negative THEN NegInf ELSE Inf)
        ELSE IF Lower(body) = <<"n","a","n">> THEN Return(NaN)
        ELSE ParseNumber(negative, body)

\* s has underscores to strip: some, none of them first, last or doubled
Underscored(s) ==
    /\ \E i \in 1..Len(s) : s[i] = "_"
    /\ s[1] # "_"
    /\ s[Len(s)] # "_"
    /\ \A i \in 1..(Len(s) - 1) : ~(s[i] = "_" /\ s[i + 1] = "_")

RECURSIVE StripUnderscores(_)
StripUnderscores(s) ==
    IF Len(s) = 0 THEN <<>>
    ELSE (IF Head(s) = "_" THEN <<>> ELSE <<Head(s)>>) \o StripUnderscores(Tail(s))

\* a string given for a float: the trimmed string as a float literal, or else
\* the string with its underscores removed
StrAsFloat(s) ==
    LET plain == ParseFloat(Trim(s))
    IN  IF plain.kind = "return" \/ ~Underscored(s) THEN plain
        ELSE ParseFloat(StripUnderscores(s))

\* the decimal digits of a natural number, none for 0
RECURSIVE IntDigits(_)
IntDigits(n) == IF n = 0 THEN <<>> ELSE Append(IntDigits(n \div 10), DigitChars[(n % 10) + 1])

\* a field declared float: an integer passes unless it is past the largest
\* double, a bool counts as 1 or 0, a string is converted as a float literal;
\* anything else fails
FloatField(v) ==
    IF v.t = "num"
    THEN (IF Overflows(IntDigits(Abs(v.v)), Len(IntDigits(Abs(v.v)))) THEN NotANumber
          ELSE Return(Float(v.v, 1)))
    ELSE IF v.t = "bool" THEN Return(Float(IF v.v THEN 1 ELSE 0, 1))
    ELSE IF v.t = "str" THEN StrAsFloat(v.v)
    ELSE NotANumber

\* the pattern of MusicNote.validate_pitch: ^[A-G][#b]?[0-9]+$
MusicNotePattern(s) == PitchRegex(s, {"A","B","C","D","E","F","G"}, Range(DigitChars))

validate_pitch(value) ==
    IF value.t # "str" THEN Raise("ValueError", <<"Pitch must be a string">>)
    ELSE IF ~MusicNotePattern(value.v).matched
    THEN Raise("ValueError", <<"Invalid pitch format", value.v>>)
    ELSE Return(value.v)

\* the error of a declared field whose key the dict lacks
Missing == Raise("ValueError", <<"Field required">>)

\* a pydantic model built from the outcomes of its fields
Build(model, outs) ==
    LET bad == {f \in DOMAIN outs : outs[f].kind = "raise"}
    IN  IF bad # {} THEN ValidationError(model, bad)
        ELSE Return([f \in DOMAIN outs |-> outs[f].value])

\* MusicNote(**raw)
MusicNote(raw) ==
    Build("MusicNote",
          [pitch |-> IF "pitch" \in DOMAIN raw THEN validate_pitch(raw.pitch) ELSE Missing,
           duration |-> IF "duration" \in DOMAIN raw THEN FloatField(raw.duration) ELSE Missing,
           timing |-> IF "timing" \in DOMAIN raw THEN FloatField(raw.timing) ELSE Missing])

\* a field declared List[T], from the outcomes of its elements: any failure fails it
ListField(outs) ==
    IF \E i \in 1..Len(outs) : outs[i].kind = "raise"
    THEN Raise("ValueError", <<"invalid element">>)
    ELSE Return([i \in 1..Len(outs) |-> outs[i].value])

\* the characters str.isspace() holds for, which str.strip() removes
SpaceChars == WhiteSpaceChars \cup {"U+001C", "U+001D", "U+001E", "U+001F"}

IsSpace(c) == c \in SpaceChars

\* str.strip()
RECURSIVE LStrip(_)
LStrip(s) == IF Len(s) > 0 /\ IsSpace(Head(s)) THEN LStrip(Tail(s)) ELSE s

RECURSIVE RStrip(_)
RStrip(s) == IF Len(s) > 0 /\ IsSpace(s[Len(s)]) THEN RStrip(SubSeq(s, 1, Len(s) - 1)) ELSE s

Strip(s) == RStrip(LStrip(s))

validate_key(value) ==
    IF value.t # "str" THEN Raise("ValueError", <<"Key must be a string">>)
    ELSE IF Len(Strip(value.v)) = 0 THEN Raise("ValueError", <<"Key cannot be empty">>)
    ELSE Return(value.v)

\* ChordProgression(**raw)
NotesField(items) == ListField([i \in 1..Len(items) |-> MusicNote(items[i])])

ChordProgression(raw) ==
    Build("ChordProgression",
          [notes |-> IF "notes" \in DOMAIN raw THEN NotesField(raw.notes) ELSE Missing,
           key |-> IF "key" \in DOMAIN raw THEN validate_key(raw.key) ELSE Missing])

\* value <= 0 of a float: false of nan, true of minus infinity
NotPositive(x) == IF x.d = 0 THEN x.n < 0 ELSE x.n <= 0

\* the tempo field: converted to float, then validate_tempo
validate_tempo(raw_value) ==
    LET value == FloatField(raw_value)
    IN  IF value.kind = "raise" THEN value
        ELSE IF NotPositive(value.value)
        THEN Raise("ValueError", <<"Tempo must be a positive number">>)
        ELSE value

\* RhythmicPattern(**raw)
BeatsField(items) == ListField([i \in 1..Len(items) |-> FloatField(items[i])])

RhythmicPattern(raw) ==
    Build("RhythmicPattern",
          [beats |-> IF "beats" \in DOMAIN raw THEN BeatsField(raw.beats) ELSE Missing,
           tempo |-> IF "tempo" \in DOMAIN raw THEN validate_tempo(raw.tempo) ELSE Missing])

\* dict.get(key, default)
DictGet(d, key, default) == IF key \in DOMAIN d THEN d[key] ELSE default

EmptyDict == [k \in {} |-> PyNone]

\* [Model(**x) for x in items], from the outcome of each construction in order:
\* the first that fails raises
Comprehension(outs) ==
    LET bad == {i \in 1..Len(outs) : outs[i].kind = "raise"}
    IN  IF bad # {} THEN outs[CHOOSE i \in bad : \A j \in bad : i <= j]
        ELSE Return([i \in 1..Len(outs) |-> outs[i].value])

NoteList(items) == Comprehension([i \in 1..Len(items) |-> MusicNote(items[i])])

ChordList(items) == Comprehension([i \in 1..Len(items) |-> ChordProgression(items[i])])

\* the rhythm validated before the notes and the chords
validate_music_data_rhythm_first(data) ==
    LET started == <<LogRecord("INFO", <<"Validating music data">>)>>
        wrapped(e) ==
            Ran(Raise("ValueError", <<"Invalid music data", e>>),
                started \o <<LogRecord("ERROR", <<"Validation error", e>>)>>)
        notes == NoteList(DictGet(data, "notes", <<>>))
        chords == ChordList(DictGet(data, "chords", <<>>))
        rhythm == RhythmicPattern(DictGet(data, "rhythm", EmptyDict))
    IN  IF rhythm.kind = "raise" THEN wrapped(rhythm)
        ELSE IF notes.kind = "raise" THEN wrapped(notes)
        ELSE IF chords.kind = "raise" THEN wrapped(chords)
        ELSE Ran(Return([notes |-> notes.value, chords |-> chords.value,
                         rhythm |-> rhythm.value]), started)

validate_music_data(data) ==
    LET started == <<LogRecord("INFO", <<"Validating music data">>)>>
        wrapped(e) ==
            Ran(Raise("ValueError", <<"Invalid music data", e>>),
                started \o <<LogRecord("ERROR", <<"Validation error", e>>)>>)
        notes == NoteList(DictGet(data, "notes", <<>>))
        chords == ChordList(DictGet(data, "chords", <<>>))
        rhythm == RhythmicPattern(DictGet(data, "rhythm", EmptyDict))
    IN  IF notes.kind = "raise" THEN wrapped(notes)
        ELSE IF chords.kind = "raise" THEN wrapped(chords)
        ELSE IF rhythm.kind = "raise" THEN wrapped(rhythm)
        ELSE Ran(Return([notes |-> notes.value, chords |-> chords.value,
                         rhythm |-> rhythm.value]), started)

(***************************************************************************)
(* Inputs.                                                                 *)
(***************************************************************************)
TokenChars == {"C", "g", "b", "H", "#", "4", "0", "1", "-", " ", "\n", "U+0664"}

SeqsUpTo(S, n) == UNION {[1..k -> S] : k \in 0..n}

Tokens == SeqsUpTo(TokenChars, MaxTokenLen)

Roots == SeqsUpTo(TokenChars, MaxRootLen)

ScaleTypes == {MajorStr, MinorStr,
               <<"M","a","j","o","r">>, <<"M","I","N","O","R">>, <<"m","A","j","O","r">>,
               <<>>, <<"m","a","j","o">>, <<"m","i","n","o","r"," ">>,
               <<"d","o","r","i","a","n">>}

MelodyValues == {60, 64}

ChordNames == {"Cmaj7", "G7", "Am7", "D7", "Em7", "A7", "Fmaj7",
               "", "C", "cmaj7", "Cmaj7 ", "Bdim"}

RequestChords == {"Cmaj7", "Fmaj7", "Bdim"}

Tempos == {39, 40, 120, 240, 241}

Models ==
    {[does |-> "raise", exc |-> "RuntimeError"],
     [does |-> "return", value |-> NdArray(<<1, 3>>, <<Float(607, 10), Float(-5, 10), Float(62, 1)>>)]}

\* a dict with the given keys, each mapped by vals
Dict(keys, vals) == [k \in keys |-> vals[k]]

RawNote(pitch, duration) ==
    [pitch |-> PyStr(pitch), duration |-> duration, timing |-> PyNum(0)]

RawNotes ==
    {RawNote(<<"C", "4">>, PyNum(1)), RawNote(<<"B", "b", "3">>, PyNum(2)),
     RawNote(<<"c", "4">>, PyNum(1)),
     [pitch |-> PyStr(<<"G", "#", "5">>), duration |-> PyNum(1)]}

RawKeys == {PyStr(<<"C">>), PyStr(<<" ", " ">>), PyStr(<<>>)}

RawProgressions ==
    {[notes |-> n, key |-> k] :
        n \in {<<>>, <<RawNote(<<"C", "4">>, PyNum(1))>>, <<RawNote(<<"H", "4">>, PyNum(1))>>},
        k \in RawKeys}

RawRhythms ==
    {[beats |-> <<PyNum(1)>>, tempo |-> PyNum(t)] : t \in {-5, 0, 1, 100}}
    \cup {[beats |-> <<PyNone>>, tempo |-> PyNum(100)], [tempo |-> PyNum(100)], EmptyDict}

PredictionValues ==
    {Float(607, 10), Float(-5, 10), Float(-17, 10), Float(62, 1), NaN, Inf}

\* a prediction of n elements, as a vector or as a batch of one row
Predictions ==
    UNION {{NdArray(<<Len(d)>>, d), NdArray(<<1, Len(d)>>, d)} :
              d \in SeqsUpTo(PredictionValues, MaxPredictionLen)}

\* keys of white space only, and one with a letter
SpaceKeys ==
    {PyStr(<<"\f">>), PyStr(<<"U+00A0", " ">>), PyStr(<<"U+001C", "\t">>),
     PyStr(<<"U+3000", "C">>)}

FloatChars == {"5", "0", ".", "-", "_", " "}

\* strings given for a float field
FloatStrings ==
    SeqsUpTo(FloatChars, MaxFloatLen)
        \cup {<<"i","n","f">>, <<"-","I","n","f","i","n","i","t","y">>, <<"n","a","n">>,
              <<"+","5">>, <<"U+00A0","5","\n">>, <<"U+001C","5">>, <<"U+0665">>,
              <<" ","1","_","0">>, <<"5","e","2">>, <<".","5","E","+","1">>, <<"5","e","-","1">>,
              <<"5","e">>, <<"e","5">>, <<"5","e","-","4","0","0">>, <<"5","e","4","0","0">>,
              <<"2","e","-","3","2","4">>, <<"-","1",".","8","e","3","0","8">>}

ValidRhythm == [beats |-> <<PyNum(1)>>, tempo |-> PyNum(100)]

\* pitch values that are no strings
NonStrPitches == {PyNum(4), PyNone}

RawNoteOf(pitch) == [pitch |-> pitch, duration |-> PyNum(1), timing |-> PyNum(0)]

Call(fn, args) == [fn |-> fn, args |-> args]

(***************************************************************************)
(* The state machine: a call is made and runs to completion.               *)
(***************************************************************************)
\* the calls a client can make, over the bounded inputs
IsCall(c) ==
    \/ \E t \in Tokens : c = Call("parse_note", <<t>>)
    \/ \E r \in Roots, st \in ScaleTypes : c = Call("Scale", <<r, st>>)
    \/ \E ch \in ChordNames : c = Call("_chord_to_vector", <<ch>>)
    \/ \E m \in SeqsUpTo(MelodyValues, MaxMelodyLen),
           cs \in SeqsUpTo(RequestChords, MaxChordsLen), t \in Tempos :
          \/ c = Call("_validate_input", <<MusicInput(m, cs, t)>>)
          \/ c = Call("_process_input", <<MusicInput(m, cs, t)>>)
          \/ \E model \in Models : c = Call("generate_harmony", <<MusicInput(m, cs, t), model>>)
    \/ \E p \in Predictions : c = Call("_convert_to_notes", <<p>>)
    \/ \E t \in Tokens : c = Call("MusicNote", <<RawNoteOf(PyStr(t))>>)
    \/ \E v \in NonStrPitches : c = Call("MusicNote", <<RawNoteOf(v)>>)
    \* a batch with one chord progression of a white-space key
    \/ \E k \in SpaceKeys :
          c = Call("validate_music_data",
                   <<[chords |-> <<[notes |-> <<>>, key |-> k]>>, rhythm |-> ValidRhythm]>>)
    \* a batch with a string for a duration, or for a beat and the tempo
    \/ \E s \in FloatStrings :
          \/ c = Call("validate_music_data",
                      <<[notes |-> <<RawNote(<<"C", "4">>, PyStr(s))>>, rhythm |-> ValidRhythm]>>)
          \/ c = Call("validate_music_data",
                      <<[rhythm |-> [beats |-> <<PyBool(TRUE), PyStr(s)>>, tempo |-> PyStr(s)]]>>)
    \* a batch is a record over any subset of the keys notes, chords, rhythm
    \/ \E ks \in SUBSET {"notes", "chords", "rhythm"},
           n \in SeqsUpTo(RawNotes, MaxNotes),
           p \in SeqsUpTo(RawProgressions, MaxProgressions), r \in RawRhythms :
          c = Call("validate_music_data", <<Dict(ks, [notes |-> n, chords |-> p, rhythm |-> r])>>)

Init ==
    /\ IsCall(call)
    /\ outcome = Pending
    /\ trace = <<>>

Finish(ran) ==
    /\ outcome' = ran.res
    /\ trace' = trace \o ran.trace
    /\ UNCHANGED call

ParseNote ==
    /\ outcome = Pending
    /\ call.fn = "parse_note"
    /\ Finish(parse_note(call.args[1]))

NewScale ==
    /\ outcome = Pending
    /\ call.fn = "Scale"
    /\ Finish(_generate_scale(call.args[1], call.args[2]))

ValidateInput ==
    /\ outcome = Pending
    /\ call.fn = "_validate_input"
    /\ Finish(_validate_input(call.args[1]))

ProcessInput ==
    /\ outcome = Pending
    /\ call.fn = "_process_input"
    /\ Finish(_process_input(call.args[1]))

ChordToVector ==
    /\ outcome = Pending
    /\ call.fn = "_chord_to_vector"
    /\ Finish(_chord_to_vector(call.args[1]))

GenerateHarmony ==
    /\ outcome = Pending
    /\ call.fn = "generate_harmony"
    /\ Finish(generate_harmony(call.args[1], call.args[2]))

ValidateMusicData ==
    /\ outcome = Pending
    /\ call.fn = "validate_music_data"
    /\ Finish(validate_music_data(call.args[1]))

ConvertToNotes ==
    /\ outcome = Pending
    /\ call.fn = "_convert_to_notes"
    /\ Finish(_convert_to_notes(call.args[1]))

NewMusicNote ==
    /\ outcome = Pending
    /\ call.fn = "MusicNote"
    /\ Finish(Ran(MusicNote(call.args[1]), <<>>))

Next ==
    \/ ParseNote
    \/ NewScale
    \/ ValidateInput
    \/ ProcessInput
    \/ ChordToVector
    \/ GenerateHarmony
    \/ ValidateMusicData
    \/ NewMusicNote
    \/ ConvertToNotes

Spec == Init /\ [][Next]_vars

(***************************************************************************)
(* Properties.                                                             *)
(***************************************************************************)
Done(fn) == call.fn = fn /\ outcome # Pending

Raised(exc) == outcome.kind = "raise" /\ outcome.exc = exc

CallsMade == {i \in 1..Len(trace) : trace[i].ev = "call"}

Made(fn) == {i \in CallsMade : trace[i].fn = fn}

Acceptable(i) ==
    Len(i.melody) >= 5 /\ Len(i.chords) >= 2 /\ 40 <= i.tempo /\ i.tempo <= 240

\* C1: _validate_input accepts a MusicInput exactly when it has at least 5 melody
\* notes, at least 2 chords and a tempo from 40 to 240, both included; every other
\* input raises ValueError, from _validate_input and from generate_harmony alike,
\* and generate_harmony goes on past validation only for an accepted input.
C1_ValidationAcceptsExactly ==
    /\ Done("_validate_input") =>
         IF Acceptable(call.args[1]) THEN outcome = Return(TRUE) ELSE Raised("ValueError")
    /\ Done("generate_harmony") =>
         IF Acceptable(call.args[1])
         THEN Made("_process_input") # {}
         ELSE /\ Raised("ValueError")
              /\ outcome.msg \in {<<"Melody must contain at least 5 notes">>,
                                  <<"At least 2 chords are required">>,
                                  <<"Tempo must be between 40 and 240 BPM">>}
              /\ Made("_process_input") = {}

C1_Witness ==
    /\ Done("_validate_input")
    /\ Len(call.args[1].melody) = 5
    /\ Len(call.args[1].chords) = 2
    /\ call.args[1].tempo = 240
    /\ outcome = Return(TRUE)

\* the vector the encoding is specified to produce: melody, then the 7-element
\* encoding of each chord, then the tempo
Vocabulary == <<"Cmaj7", "G7", "Am7", "D7", "Em7", "A7", "Fmaj7">>

OneHot(chord) ==
    [k \in 1..7 |-> IF chord \in Range(Vocabulary) /\ Vocabulary[k] = chord
                    THEN Float(1, 1) ELSE Float(0, 1)]

RECURSIVE EncodedChords(_)
EncodedChords(chords) ==
    IF Len(chords) = 0 THEN <<>> ELSE OneHot(Head(chords)) \o EncodedChords(Tail(chords))

FlatVector(i) ==
    [k \in 1..Len(i.melody) |-> Float(i.melody[k], 1)]
        \o EncodedChords(i.chords) \o <<Float(i.tempo, 1)>>

\* C2: for an input that passes validation, _process_input returns the flat
\* vector melody ++ chord encodings ++ tempo, of length len(melody) + 7*len(chords) + 1.
C2_FlatVectorOfValidatedInput ==
    (Done("_process_input") /\ Acceptable(call.args[1])) =>
        /\ outcome.kind = "return"
        /\ outcome.value.shape = <<Len(call.args[1].melody) + 7 * Len(call.args[1].chords) + 1>>
        /\ outcome.value.data = FlatVector(call.args[1])

\* C3: in generate_harmony _process_input and predict are invoked only after
\* _validate_input was invoked and succeeded for the request; a request that fails
\* validation invokes neither and returns no result.
C3_ValidationComesFirst ==
    Done("generate_harmony") =>
        /\ \A j \in CallsMade :
              trace[j].fn \in {"_process_input", "predict", "_convert_to_notes"} =>
                  /\ \E i \in Made("_validate_input") : i < j
                  /\ Acceptable(call.args[1])
        /\ ~Acceptable(call.args[1]) =>
              /\ outcome.kind = "raise"
              /\ \A j \in CallsMade : trace[j].fn = "_validate_input"

C3_Witness ==
    /\ Done("generate_harmony")
    /\ Acceptable(call.args[1])
    /\ Made("_validate_input") = {1}
    /\ Made("_process_input") # {}

\* C4: _chord_to_vector returns a 7-element vector for every chord name: for the
\* k-th of Cmaj7, G7, Am7, D7, Em7, A7, Fmaj7 the vector with a single 1, at
\* position k, and for every other string the all-zero vector, without raising.
C4_ChordEncodingTotal ==
    Done("_chord_to_vector") =>
        /\ outcome.kind = "return"
        /\ outcome.value.shape = <<7>>
        /\ outcome.value.data = OneHot(call.args[1])

C4_Witness ==
    /\ Done("_chord_to_vector")
    /\ call.args[1] = "Fmaj7"
    /\ outcome.kind = "return"
    /\ outcome.value.data[7] = Float(1, 1)
    /\ \A k \in 1..6 : outcome.value.data[k] = Float(0, 1)

\* a letter A-G or a-g, an optional '#' or 'b', then one or more of the given digits
TokenOver(t, digits) ==
    /\ Len(t) >= 2
    /\ t[1] \in NoteLetters
    /\ LET k == IF t[2] \in {"#", "b"} /\ Len(t) >= 3 THEN 3 ELSE 2
       IN  \A i \in k..Len(t) : t[i] \in digits

\* a token of the pattern ^[A-Ga-g][#b]?\d+$, \d being any decimal digit
WellFormedToken(t) == TokenOver(t, DecimalDigitChars)

TokenAccidental(t) == IF t[2] \in {"#", "b"} THEN t[2] ELSE ""

TokenDigits(t) == SubSeq(t, IF t[2] \in {"#", "b"} THEN 3 ELSE 2, Len(t))

\* the value of a decimal numeral, from its most significant digit
RECURSIVE DecimalValue(_)
DecimalValue(ds) ==
    IF Len(ds) = 0 THEN 0
    ELSE DigitValue(Head(ds)) * Pow10(Len(ds) - 1) + DecimalValue(Tail(ds))

\* C5: parse_note succeeds on every well-formed token, with the
\* uppercased letter as pitch, the value of the digits as octave, and as accidental
\* the token's '#' or 'b', or none (None, the absent value of Note.accidental) when
\* the token has no accidental.
C5_AccidentalNoneWhenAbsent ==
    (Done("parse_note") /\ WellFormedToken(call.args[1])) =>
        /\ outcome.kind = "return"
        /\ outcome.value.pitch = UpperChar(call.args[1][1])
        /\ outcome.value.accidental =
              (IF TokenAccidental(call.args[1]) = "" THEN None ELSE TokenAccidental(call.args[1]))
        /\ outcome.value.octave = DecimalValue(TokenDigits(call.args[1]))

\* C6: parse_note raises, and returns no Note, for every token that is not exactly
\* a letter A-G/a-g, an optional '#' or 'b' and one or more digits, with nothing
\* before or after.
C6_MalformedTokenFails ==
    (Done("parse_note") /\ ~WellFormedToken(call.args[1])) => outcome.kind = "raise"

\* scale_type spelt as the word in any letter case
Spells(scale_type, word) ==
    /\ Len(scale_type) = Len(word)
    /\ \A i \in 1..Len(word) : scale_type[i] \in {word[i], UpperChar(word[i])}

PitchesAndOctaves(notes) == [i \in 1..Len(notes) |-> <<notes[i].pitch, notes[i].octave>>]

\* C7: for a parsable root, Scale(root, 'major') in any letter case has the 7 notes
\* parse_note(root), D, E, F, G, A, B at the root's octave; Scale(root, 'minor')
\* has parse_note(root), D, F, G, A, B at the root's octave and then C one octave
\* higher; any other scale_type raises the unsupported-scale-type error.
C7_ScaleNotes ==
    (Done("Scale") /\ parse_note(call.args[1]).res.kind = "return") =>
        LET root == parse_note(call.args[1]).res.value
            o == root.octave
        IN  IF Spells(call.args[2], MajorStr)
            THEN /\ outcome.kind = "return"
                 /\ Len(outcome.value) = 7
                 /\ outcome.value[1] = root
                 /\ Tail(PitchesAndOctaves(outcome.value)) =
                        <<<<"D", o>>, <<"E", o>>, <<"F", o>>, <<"G", o>>, <<"A", o>>, <<"B", o>>>>
            ELSE IF Spells(call.args[2], MinorStr)
            THEN /\ outcome.kind = "return"
                 /\ Len(outcome.value) = 7
                 /\ outcome.value[1] = root
                 /\ Tail(PitchesAndOctaves(outcome.value)) =
                        <<<<"D", o>>, <<"F", o>>, <<"G", o>>, <<"A", o>>, <<"B", o>>, <<"C", o + 1>>>>
            ELSE /\ Raised("ValueError")
                 /\ outcome.msg = <<"Unsupported scale type", call.args[2]>>

C7_Witness ==
    /\ Done("Scale")
    /\ call.args[1] = <<"g", "4">>
    /\ call.args[2] = <<"M", "I", "N", "O", "R">>
    /\ outcome.kind = "return"
    /\ outcome.value[1] = Note("G", "", 4)
    /\ outcome.value[7].pitch = "C"
    /\ outcome.value[7].octave = 5

\* the sub-records a batch holds, a missing sequence counting as empty
NotesOf(data) == IF "notes" \in DOMAIN data THEN data.notes ELSE <<>>

ChordsOf(data) == IF "chords" \in DOMAIN data THEN data.chords ELSE <<>>

BadNotes(data) == {i \in 1..Len(NotesOf(data)) : MusicNote(NotesOf(data)[i]).kind = "raise"}

BadChords(data) ==
    {i \in 1..Len(ChordsOf(data)) : ChordProgression(ChordsOf(data)[i]).kind = "raise"}

BadRhythm(data) == "rhythm" \in DOMAIN data /\ RhythmicPattern(data.rhythm).kind = "raise"

Least(S) == CHOOSE i \in S : \A j \in S : i <= j

\* the first error met when the notes, then the chords, then the rhythm are validated
FirstError(data) ==
    IF BadNotes(data) # {} THEN MusicNote(NotesOf(data)[Least(BadNotes(data))])
    ELSE IF BadChords(data) # {} THEN ChordProgression(ChordsOf(data)[Least(BadChords(data))])
    ELSE RhythmicPattern(data.rhythm)

\* C8: validate_music_data fails as a unit when any note, any chord progression or
\* the rhythm record is invalid: it returns nothing and raises 'Invalid music data'
\* wrapping the first error met over the notes, then the chords, then the rhythm.
C8_AllOrNothing ==
    (/\ Done("validate_music_data")
     /\ (BadNotes(call.args[1]) # {} \/ BadChords(call.args[1]) # {} \/ BadRhythm(call.args[1])))
    => outcome = Raise("ValueError", <<"Invalid music data", FirstError(call.args[1])>>)

C8_Witness ==
    /\ Done("validate_music_data")
    /\ DOMAIN call.args[1] = {"notes", "chords", "rhythm"}
    /\ Len(call.args[1].notes) > 0
    /\ BadNotes(call.args[1]) = {}
    /\ BadChords(call.args[1]) = {}
    /\ call.args[1].rhythm = [beats |-> <<PyNum(1)>>, tempo |-> PyNum(-5)]
    /\ Raised("ValueError")
    /\ outcome.msg[1] = "Invalid music data"
    /\ outcome.msg[2] = ValidationError("RhythmicPattern", {"tempo"})

\* C9: each of the keys notes, chords and rhythm is optional: a record whose
\* present sub-records are all valid is accepted, whichever keys it omits, and
\* yields the validated sub-records, an omitted sequence counting as empty.
C9_EveryKeyOptional ==
    (/\ Done("validate_music_data")
     /\ BadNotes(call.args[1]) = {}
     /\ BadChords(call.args[1]) = {}
     /\ ~BadRhythm(call.args[1]))
    => /\ outcome.kind = "return"
       /\ Len(outcome.value.notes) = Len(NotesOf(call.args[1]))
       /\ Len(outcome.value.chords) = Len(ChordsOf(call.args[1]))

\* the failure of the first step of the pipeline that fails, or the notes of the last
PipelineFailure(input_data, model) ==
    LET validated == _validate_input(input_data).res
        processed == _process_input(input_data).res
        predicted == predict(model, processed.value)
        converted == _convert_to_notes(predicted.value).res
    IN  IF validated.kind = "raise" THEN validated
        ELSE IF processed.kind = "raise" THEN processed
        ELSE IF predicted.kind = "raise" THEN predicted
        ELSE IF converted.kind = "raise" THEN converted
        ELSE Return(converted.value)

\* C10: generate_harmony invokes predict (and every other step) at most once per
\* request; when a step raises, that failure itself is what the caller gets, after
\* it was logged as an error, and no note sequence is returned; a result is
\* returned only when no step failed.
C10_NoRetryFailurePropagates ==
    Done("generate_harmony") =>
        LET failure == PipelineFailure(call.args[1], call.args[2])
        IN  /\ \A fn \in {"_validate_input", "_process_input", "predict", "_convert_to_notes"} :
                  Cardinality(Made(fn)) <= 1
            /\ failure.kind = "raise" =>
                  /\ outcome = failure
                  /\ trace[Len(trace)] =
                        LogRecord("ERROR", <<"Error generating harmony", failure.msg>>)
            /\ outcome.kind = "return" => failure.kind = "return"

C10_Witness ==
    /\ Done("generate_harmony")
    /\ Acceptable(call.args[1])
    /\ Raised("ValueError")
    /\ outcome = _process_input(call.args[1]).res
    /\ Made("predict") = {}
    /\ trace[Len(trace)].level = "ERROR"

\* an uppercase letter A-G, an optional '#' or 'b', then one or more digits 0-9
StrictPitch(t) == TokenOver(t, Range(DigitChars)) /\ t[1] \in {"A", "B", "C", "D", "E", "F", "G"}

\* C11: MusicNote accepts a pitch string exactly when it is one uppercase letter
\* A-G, an optional '#' or 'b' and one or more digits 0-9; a lowercase letter is
\* rejected, and every pitch MusicNote accepts parse_note accepts too.
C11_PitchAcceptedExactly ==
    (Done("MusicNote") /\ call.args[1].pitch.t = "str") =>
        LET t == call.args[1].pitch.v
        IN  /\ outcome.kind = "return" <=> StrictPitch(t)
            /\ outcome.kind = "return" => parse_note(t).res.kind = "return"
            /\ (Len(t) > 0 /\ t[1] \in Range(LowerLetters)) => outcome.kind = "raise"

\* r is the float x = n/d truncated toward zero
Truncated(r, x) ==
    /\ x.d > 0
    /\ x.n >= 0 => (r * x.d <= x.n /\ x.n < (r + 1) * x.d)
    /\ x.n < 0 => ((r - 1) * x.d < x.n /\ x.n <= r * x.d)

Finite(x) == x.d # 0

\* C12 as stated: _convert_to_notes returns one integer per element of the
\* flattened prediction, in order, each the element truncated toward zero,
\* whatever the prediction holds.
C12_OneIntegerPerElement ==
    Done("_convert_to_notes") =>
        /\ outcome.kind = "return"
        /\ Len(outcome.value) = Len(call.args[1].data)
        /\ \A i \in 1..Len(call.args[1].data) : Truncated(outcome.value[i], call.args[1].data[i])

\* C12 amended: when every element of the prediction is finite, _convert_to_notes
\* returns one integer per element of the flattened prediction, in order, each the
\* element truncated toward zero, whatever the number of elements; when an element
\* is NaN or infinite the call raises (ValueError for a NaN, OverflowError for an
\* infinity, by the first such element) and returns nothing.
C12_FiniteElementsTruncated ==
    Done("_convert_to_notes") =>
        LET data == call.args[1].data
            odd == {i \in 1..Len(data) : ~Finite(data[i])}
        IN  IF odd = {}
            THEN /\ outcome.kind = "return"
                 /\ Len(outcome.value) = Len(data)
                 /\ \A i \in 1..Len(data) : Truncated(outcome.value[i], data[i])
            ELSE Raised(IF data[Least(odd)] = NaN THEN "ValueError" ELSE "OverflowError")

C12_Witness ==
    /\ Done("_convert_to_notes")
    /\ call.args[1] = NdArray(<<1, 2>>, <<Float(-17, 10), Float(607, 10)>>)
    /\ outcome = Return(<<-1, 60>>)

====
